---- MODULE Spec2Model ----
(***************************************************************************)
(* Order claiming, completion aggregation and kitchen sessions of          *)
(* TableDirect.  The store (Supabase / Postgres) holds the rows of         *)
(* order_items, orders, active_sessions and users.  Every client-side      *)
(* function is a sequence of awaited store calls; each store call is one   *)
(* atomic step (a single auto-committed statement), and the steps of       *)
(* different clients interleave freely.  Timestamps are kept as "set" or   *)
(* "not set".                                                              *)
(***************************************************************************)
EXTENDS Integers, FiniteSets, Sequences, TLC

\* ---- bounds of the model ------------------------------------------------
\* calls started in one behaviour, and store calls that may fail in it
MaxCalls == 4
MaxFaults == 1
\* loadKitchenOrders queries that change notifications start in one behaviour
MaxReloads == 2

\* ---- values ---------------------------------------------------------------
Null == 0
Restaurant == 1
\* two kitchen workers on separate devices
Workers == {1, 2}
\* the rows the customer checkout has inserted: order 1 with the items 1 and 2,
\* order 2 with the item 3
OrderIds == {1, 2}
ItemIds == {1, 2, 3}
OrderOf(i) == IF i = 3 THEN 2 ELSE 1
\* ids that name no row
NoSuchId == Cardinality(ItemIds) + 1
NoSuchOrder == Cardinality(OrderIds) + 1
\* the customer's browser at the checkout
Customer == Cardinality(Workers) + 1
Clients == Workers \cup {Customer}
\* every call inserts at most one session row
SessionIds == 1 .. MaxCalls

\* the station text field of the kitchen interface: empty or a label
Stations == {"", "grill"}

\* a restaurant other than the workers' one
OtherRestaurant == Restaurant + 1
Restaurants == {Restaurant, OtherRestaurant}
\* values of orders.created_at
Times == 1 .. Cardinality(OrderIds)
\* the orders of the fixture: placed at the workers' restaurant, in id order
Placed == [o \in OrderIds |-> [restaurant_id |-> Restaurant, created_at |-> o]]
\* no getPendingOrders call has returned
NoData == [restaurant |-> Null, data |-> <<>>]

VARIABLES
    order_items,     \* [ItemIds -> row of order_items]
    orders,          \* [OrderIds -> row of orders]
    active_sessions, \* [ids of the rows present -> row of active_sessions]
    users,           \* [Workers -> users.restaurant_id]
    uniqueKey,       \* active_sessions has a unique index on (user_id, restaurant_id)
    pc,              \* [Clients -> the store call the client issues next]
    loc,             \* [Clients -> arguments of the call in flight]
    ret,             \* [Clients -> result of the client's last call, "none" while one runs]
    activeSession,   \* [Workers -> id of the session the worker's auth context holds]
    timers,          \* ids of the sessions whose heartbeat interval is running
    sessionSeq,      \* session ids handed out so far
    removing,        \* the user removeStaff is between its two store calls for
    view,            \* [Workers -> the orders state of the worker's kitchen interface]
    claimedOrders,   \* [Workers -> the claimedOrders state of the kitchen interface]
    response,        \* [Workers -> result of a loadKitchenOrders query not yet received]
    reloads,         \* loadKitchenOrders queries started by change notifications
    managed,         \* [OrderIds -> status in the orders state of order management]
    placed,          \* [OrderIds -> the restaurant_id and created_at columns of the order]
    pendingOrders,   \* restaurant and returned list of the last getPendingOrders call
    faults,          \* store calls that have failed so far
    calls            \* calls started so far

vars == <<order_items, orders, active_sessions, users, uniqueKey,
          pc, loc, ret, activeSession, timers, sessionSeq, removing,
          view, claimedOrders, response, reloads, managed, placed, pendingOrders,
          faults, calls>>
store == <<order_items, orders, active_sessions, users>>
\* what the steps of the database library leave alone
auth == <<activeSession, timers, removing>>
kitchen == <<view, claimedOrders, response, reloads>>
queries == <<placed, pendingOrders>>

\* released: whether the release update of the call in flight matched a row
\* ui: the kitchen interface handler that awaits the call, "" for none
Args(o, station, released) ==
    [o |-> o, station |-> station, released |-> released, s |-> Null, ui |-> ""]
NoLoc == Args(Null, "", FALSE)
SessionArgs(s) == [NoLoc EXCEPT !.s = s]
UiArgs(o, station, released, ui) == [Args(o, station, released) EXCEPT !.ui = ui]

\* ---- queries ---------------------------------------------------------------
ItemsOf(o) == {i \in ItemIds : order_items[i].order_id = o}
OwnedBy(o, w) == {i \in ItemsOf(o) : order_items[i].claimed_by_user_id = w}
ClaimedItems(o) == {i \in ItemsOf(o) : order_items[i].claimed_by_user_id # Null}
AllCompleted(o) == \A i \in ItemsOf(o) : order_items[i].status = "completed"
SessionsOf(w) == {s \in DOMAIN active_sessions : active_sessions[s].user_id = w}
ActiveSessionsOf(w) == {s \in SessionsOf(w) : active_sessions[s].status = "active"}
NewSessionId == sessionSeq + 1
Insert(w) ==
    [s \in DOMAIN active_sessions \cup {NewSessionId} |->
        IF s = NewSessionId THEN [user_id |-> w, status |-> "active"]
        ELSE active_sessions[s]]

\* ---- KitchenInterface: what loadKitchenOrders selects -----------------------
\* orders of the restaurant with status pending or preparing, with their items
Listed(o) == orders[o].status \in {"pending", "preparing"}
NoRow == [claimed_by_user_id |-> Null, status |-> "pending"]
Snapshot ==
    [orders |-> [o \in OrderIds |->
                    IF Listed(o) THEN orders[o].status ELSE "absent"],
     items |-> [i \in ItemIds |->
                    IF order_items[i].order_id \in OrderIds
                       /\ Listed(order_items[i].order_id)
                    THEN [claimed_by_user_id |-> order_items[i].claimed_by_user_id,
                          status |-> order_items[i].status]
                    ELSE NoRow]]
NoResponse == [orders |-> [o \in OrderIds |-> "none"],
               items |-> [i \in ItemIds |-> NoRow]]
\* the orders of the data with an item claimed by the user
userClaimedOrders(data, w) ==
    {o \in OrderIds : /\ data.orders[o] # "absent"
                      /\ \E i \in ItemIds : /\ OrderOf(i) = o
                                            /\ data.items[i].claimed_by_user_id = w}

\* a store call either succeeds or fails with an error and no effect
Outcomes == IF faults < MaxFaults THEN {"ok", "error"} ELSE {"ok"}
Count(out) == IF out = "error" THEN faults + 1 ELSE faults

\* the call ends; a kitchen interface handler that awaited it goes on to
\* update claimedOrders and reload when the call returned true
Return(w, value) ==
    /\ ret' = [ret EXCEPT ![w] = value]
    /\ IF loc[w].ui # "" /\ value = "true"
       THEN /\ pc' = [pc EXCEPT ![w] = "handler_load"]
            /\ UNCHANGED loc
       ELSE /\ pc' = [pc EXCEPT ![w] = "idle"]
            /\ loc' = [loc EXCEPT ![w] = NoLoc]

Goto(w, label) ==
    /\ pc' = [pc EXCEPT ![w] = label]
    /\ UNCHANGED <<loc, ret>>

\* ---- initial state: the orders as the checkout created them ---------------
InitStore ==
    /\ order_items = [i \in ItemIds |->
          [order_id |-> OrderOf(i), claimed_by_user_id |-> Null,
           status |-> "pending", claimed_at |-> FALSE, completed_at |-> FALSE]]
    /\ orders = [o \in OrderIds |-> [status |-> "pending", claimed_by |-> Null]]
    /\ active_sessions = [s \in {} |-> [user_id |-> Null, status |-> "active"]]
    /\ users = [w \in Workers |-> Restaurant]
    /\ uniqueKey \in BOOLEAN
    /\ placed = Placed

InitClients ==
    /\ pc = [w \in Clients |-> "idle"]
    /\ loc = [w \in Clients |-> NoLoc]
    /\ ret = [w \in Clients |-> "none"]
    /\ activeSession = [w \in Workers |-> Null]
    /\ timers = {}
    /\ sessionSeq = 0
    /\ removing = Null
    /\ view = [w \in Workers |-> Snapshot]
    /\ claimedOrders = [w \in Workers |-> {}]
    /\ response = [w \in Workers |-> NoResponse]
    /\ reloads = 0
    /\ managed = [o \in OrderIds |-> orders[o].status]
    /\ pendingOrders = NoData
    /\ faults = 0
    /\ calls = 0

Init == InitStore /\ InitClients

\* ---- claimOrder(orderId, userId, station) ----------------------------------
\* the conflict test over the fetched rows
alreadyClaimed(rows, w) ==
    \E i \in rows : /\ order_items[i].claimed_by_user_id # Null
                    /\ order_items[i].claimed_by_user_id # w

\* a claim that never finds the item list empty
NeverEmpty(rows) == FALSE

\* !orderItems || orderItems.length === 0
NoItems(rows) == rows = {}

\* select id, claimed_by_user_id where order_id = o; then the two early returns
claimOrderCall(w, o, station, ui) ==
    /\ pc[w] = "idle"
    /\ calls < MaxCalls
    /\ calls' = calls + 1
    /\ \E out \in Outcomes :
        /\ faults' = Count(out)
        /\ IF out = "error" \/ NoItems(ItemsOf(o)) \/ alreadyClaimed(ItemsOf(o), w)
           THEN Return(w, "false")
           ELSE /\ pc' = [pc EXCEPT ![w] = "claim_items"]
                /\ loc' = [loc EXCEPT ![w] = UiArgs(o, station, FALSE, ui)]
                /\ ret' = [ret EXCEPT ![w] = "none"]
    /\ UNCHANGED <<store, uniqueKey, auth, sessionSeq, managed, queries>>

claimOrder(w, o, station) ==
    claimOrderCall(w, o, station, "") /\ UNCHANGED kitchen

\* a claim that takes one item per statement instead of the whole order
ClaimRowsOneByOne(o) ==
    {i \in ItemsOf(o) :
        /\ order_items[i].claimed_by_user_id = Null
        /\ \A j \in ItemsOf(o) : order_items[j].claimed_by_user_id = Null => i <= j}

\* a claim that writes every item of the order again
ClaimRowsAll(o) == ItemsOf(o)

\* the rows of: update order_items ... where order_id = o and
\* claimed_by_user_id is null
ClaimRows(o) == {i \in ItemsOf(o) : order_items[i].claimed_by_user_id = Null}

\* set claimed_by_user_id = w, claimed_at = now, status = 'claimed'
claimOrderItems(w) ==
    /\ pc[w] = "claim_items"
    /\ \E out \in Outcomes :
        /\ faults' = Count(out)
        /\ IF out = "error"
           THEN /\ Return(w, "false")
                /\ UNCHANGED order_items
           ELSE /\ order_items' = [i \in ItemIds |->
                      IF i \in ClaimRows(loc[w].o)
                      THEN [order_items[i] EXCEPT !.claimed_by_user_id = w,
                                                  !.claimed_at = TRUE,
                                                  !.status = "claimed"]
                      ELSE order_items[i]]
                /\ Goto(w, "claim_order")
    /\ UNCHANGED <<orders, active_sessions, users, uniqueKey, auth, kitchen, sessionSeq, calls,
                   managed, queries>>

\* an advance that does not look at the status
AdvanceRowsAny(o) == {p \in OrderIds : p = o}

\* the rows of: update orders ... where id = o and status = 'pending'
AdvanceRows(o) == {p \in OrderIds : p = o /\ orders[p].status = "pending"}

\* a claim that gives up when the order update fails
claimedUnlessOrderError(out) == IF out = "error" THEN "false" ELSE "true"
\* the error of the order update is logged: "Don't return false here as the
\* items were successfully claimed"
claimed(out) == "true"

\* set status = 'preparing'; an error is logged and the call goes on
claimOrderStatus(w) ==
    /\ pc[w] = "claim_order"
    /\ \E out \in Outcomes :
        /\ faults' = Count(out)
        /\ orders' = IF out = "ok"
                     THEN [p \in OrderIds |->
                             IF p \in AdvanceRows(loc[w].o)
                             THEN [orders[p] EXCEPT !.status = "preparing"]
                             ELSE orders[p]]
                     ELSE orders
        /\ IF loc[w].station # "" /\ claimed(out) = "true"
           THEN Goto(w, "session_user")
           ELSE Return(w, claimed(out))
    /\ UNCHANGED <<order_items, active_sessions, users, uniqueKey, auth, kitchen, sessionSeq, calls,
                   managed, queries>>

\* ---- createKitchenSession(userId, station), called by claimOrder -----------
\* select restaurant_id from users where id = w; without one the session is
\* not written, and claimOrder returns true
createKitchenSession(w) ==
    /\ pc[w] = "session_user"
    /\ \E out \in Outcomes :
        /\ faults' = Count(out)
        /\ IF out = "error" \/ users[w] = Null
           THEN Return(w, "true")
           ELSE Goto(w, "session_upsert")
    /\ UNCHANGED <<store, uniqueKey, auth, kitchen, sessionSeq, calls, managed, queries>>

\* upsert ... on conflict (user_id, restaurant_id): the row of the pair is
\* updated, or a row is inserted; without the unique index the statement fails
Upsert(w) ==
    IF SessionsOf(w) # {}
    THEN [s \in DOMAIN active_sessions |->
            IF s \in SessionsOf(w)
            THEN [active_sessions[s] EXCEPT !.status = "active"]
            ELSE active_sessions[s]]
    ELSE Insert(w)

createKitchenSessionUpsert(w) ==
    /\ pc[w] = "session_upsert"
    /\ \E out \in Outcomes :
        /\ faults' = Count(out)
        /\ active_sessions' = IF out = "ok" /\ uniqueKey THEN Upsert(w)
                              ELSE active_sessions
    /\ sessionSeq' = IF DOMAIN active_sessions' = DOMAIN active_sessions
                     THEN sessionSeq ELSE sessionSeq + 1
    /\ Return(w, "true")
    /\ UNCHANGED <<order_items, orders, users, uniqueKey, auth, kitchen, calls, managed, queries>>

\* ---- releaseOrder(orderId, userId) ---------------------------------------
\* a release that leaves the items already completed alone
ReleaseRowsOpen(o, w) == {i \in OwnedBy(o, w) : order_items[i].status # "completed"}

\* a release of the order's claimed items whoever owns them
ReleaseRowsOfAnyone(o, w) == ClaimedItems(o)

\* the rows of: update order_items ... where order_id = o and
\* claimed_by_user_id = w
ReleaseRows(o, w) == OwnedBy(o, w)

\* set claimed_by_user_id = null, claimed_at = null, status = 'pending'
releaseOrderCall(w, o, ui) ==
    /\ pc[w] = "idle"
    /\ calls < MaxCalls
    /\ calls' = calls + 1
    /\ \E out \in Outcomes :
        /\ faults' = Count(out)
        /\ IF out = "error"
           THEN /\ Return(w, "false")
                /\ UNCHANGED order_items
           ELSE /\ order_items' = [i \in ItemIds |->
                      IF i \in ReleaseRows(o, w)
                      THEN [order_items[i] EXCEPT !.claimed_by_user_id = Null,
                                                  !.claimed_at = FALSE,
                                                  !.status = "pending"]
                      ELSE order_items[i]]
                /\ pc' = [pc EXCEPT ![w] = "release_check"]
                /\ loc' = [loc EXCEPT ![w] = UiArgs(o, "", ReleaseRows(o, w) # {}, ui)]
                /\ ret' = [ret EXCEPT ![w] = "none"]
    /\ UNCHANGED <<orders, active_sessions, users, uniqueKey, auth, sessionSeq, managed, queries>>

releaseOrder(w, o) ==
    releaseOrderCall(w, o, "") /\ UNCHANGED kitchen

\* select id where order_id = o and claimed_by_user_id is not null
releaseOrderCheck(w) ==
    /\ pc[w] = "release_check"
    /\ \E out \in Outcomes :
        /\ faults' = Count(out)
        /\ IF out = "error"
           THEN Return(w, "false")
           ELSE IF ClaimedItems(loc[w].o) = {}
                THEN Goto(w, "release_order")
                ELSE Return(w, "true")
    /\ UNCHANGED <<store, uniqueKey, auth, kitchen, sessionSeq, calls, managed, queries>>

\* update orders set status = 'pending' where id = o; an error is logged
releaseOrderStatus(w) ==
    /\ pc[w] = "release_order"
    /\ \E out \in Outcomes :
        /\ faults' = Count(out)
        /\ orders' = IF out = "ok"
                     THEN [orders EXCEPT ![loc[w].o].status = "pending"]
                     ELSE orders
    /\ Return(w, "true")
    /\ UNCHANGED <<order_items, active_sessions, users, uniqueKey, auth, kitchen, sessionSeq, calls,
                   managed, queries>>

\* ---- markItemCompleted(itemId, userId) -----------------------------------
\* the rows of: update order_items ... where id = i and claimed_by_user_id = w
CompleteRows(i, w) ==
    {j \in ItemIds : j = i /\ order_items[j].claimed_by_user_id = w}

\* set status = 'completed', completed_at = now; true unless the store failed
markItemCompleted(w, i) ==
    /\ pc[w] = "idle"
    /\ calls < MaxCalls
    /\ calls' = calls + 1
    /\ \E out \in Outcomes :
        /\ faults' = Count(out)
        /\ IF out = "error"
           THEN /\ Return(w, "false")
                /\ UNCHANGED order_items
           ELSE /\ order_items' = [j \in ItemIds |->
                      IF j \in CompleteRows(i, w)
                      THEN [order_items[j] EXCEPT !.status = "completed",
                                                  !.completed_at = TRUE]
                      ELSE order_items[j]]
                /\ Return(w, "true")
    /\ UNCHANGED <<orders, active_sessions, users, uniqueKey, auth, kitchen, sessionSeq,
                   managed, queries>>

\* ---- checkOrderCompletion(orderId) ---------------------------------------
\* select status where order_id = o; items.every(status = 'completed')
checkOrderCompletion(w, o) ==
    /\ pc[w] = "idle"
    /\ calls < MaxCalls
    /\ calls' = calls + 1
    /\ \E out \in Outcomes :
        /\ faults' = Count(out)
        /\ IF out = "ok" /\ AllCompleted(o)
           THEN /\ pc' = [pc EXCEPT ![w] = "check_order"]
                /\ loc' = [loc EXCEPT ![w] = Args(o, "", FALSE)]
                /\ ret' = [ret EXCEPT ![w] = "none"]
           ELSE Return(w, "void")
    /\ UNCHANGED <<store, uniqueKey, auth, kitchen, sessionSeq, managed, queries>>

\* a completion that closes the order instead of handing it to the staff
MarkServed(o) == [orders EXCEPT ![o].status = "served"]

\* update orders set status = 'ready' where id = o
MarkReady(o) == [orders EXCEPT ![o].status = "ready"]

\* an error of the update is logged
checkOrderCompletionStatus(w) ==
    /\ pc[w] = "check_order"
    /\ \E out \in Outcomes :
        /\ faults' = Count(out)
        /\ orders' = IF out = "ok" THEN MarkReady(loc[w].o) ELSE orders
    /\ Return(w, "void")
    /\ UNCHANGED <<order_items, active_sessions, users, uniqueKey, auth, kitchen, sessionSeq, calls,
                   managed, queries>>

\* ---- the database library, called in any order by any worker ---------------
ClaimSteps ==
    \/ \E w \in Workers : claimOrderItems(w)
    \/ \E w \in Workers : claimOrderStatus(w)
    \/ \E w \in Workers : createKitchenSession(w)
    \/ \E w \in Workers : createKitchenSessionUpsert(w)

ReleaseSteps ==
    \/ \E w \in Workers : releaseOrderCheck(w)
    \/ \E w \in Workers : releaseOrderStatus(w)

Next ==
    \/ \E w \in Workers, o \in OrderIds, s \in Stations : claimOrder(w, o, s)
    \/ ClaimSteps
    \/ \E w \in Workers, o \in OrderIds : releaseOrder(w, o)
    \/ ReleaseSteps
    \/ \E w \in Workers, i \in ItemIds \cup {NoSuchId} : markItemCompleted(w, i)
    \/ \E w \in Workers, o \in OrderIds : checkOrderCompletion(w, o)
    \/ \E w \in Workers : checkOrderCompletionStatus(w)

Spec == Init /\ [][Next]_vars

\* ---- AuthContext: createKitchenSession(userName, stationId) ----------------
\* dbHelpers.createSession: insert into active_sessions; with the unique index
\* a second row of the pair is refused, the error is thrown and caught.  On
\* success the context keeps the session and starts its heartbeat interval.
authCreateKitchenSession(w) ==
    /\ pc[w] = "idle"
    /\ calls < MaxCalls
    /\ calls' = calls + 1
    /\ \E out \in Outcomes :
        /\ faults' = Count(out)
        /\ IF out = "error" \/ (uniqueKey /\ SessionsOf(w) # {})
           THEN /\ Return(w, "null")
                /\ UNCHANGED <<active_sessions, sessionSeq, activeSession, timers>>
           ELSE /\ active_sessions' = Insert(w)
                /\ sessionSeq' = sessionSeq + 1
                /\ activeSession' = [activeSession EXCEPT ![w] = NewSessionId]
                /\ timers' = timers \cup {NewSessionId}
                /\ Return(w, "cleanup")
    /\ UNCHANGED <<order_items, orders, users, uniqueKey, removing, kitchen, managed, queries>>

\* the interval callback: dbHelpers.updateSessionHeartbeat(session.id), update
\* active_sessions set last_seen = now, status = 'active' where id = s; an
\* error is thrown, and the callback clears the interval
Heartbeat(s) ==
    [t \in DOMAIN active_sessions |->
        IF t = s THEN [active_sessions[t] EXCEPT !.status = "active"]
        ELSE active_sessions[t]]

\* the interval goes on ticking
keepInterval(s) == timers
\* clearInterval(heartbeatInterval) in the catch of the callback
clearInterval(s) == timers \ {s}

updateSessionHeartbeat(s) ==
    /\ s \in timers
    /\ calls < MaxCalls
    /\ calls' = calls + 1
    /\ \E out \in Outcomes :
        /\ faults' = Count(out)
        /\ IF out = "error"
           THEN /\ timers' = clearInterval(s)
                /\ UNCHANGED active_sessions
           ELSE /\ active_sessions' = Heartbeat(s)
                /\ UNCHANGED timers
    /\ UNCHANGED <<order_items, orders, users, uniqueKey, pc, loc, ret,
                   activeSession, sessionSeq, removing, kitchen, managed, queries>>

\* ---- AuthContext: endKitchenSession() -> dbHelpers.endSession(id) ----------
\* the rows of: update orders set claimed_by = null, claimed_at = null,
\* status = 'pending' where claimed_by = s
EndSessionRows(s) == {o \in OrderIds : orders[o].claimed_by = s}

\* the result of the update is not looked at
endKitchenSession(w) ==
    /\ pc[w] = "idle"
    /\ activeSession[w] # Null
    /\ calls < MaxCalls
    /\ calls' = calls + 1
    /\ \E out \in Outcomes :
        /\ faults' = Count(out)
        /\ orders' = IF out = "ok"
                     THEN [o \in OrderIds |->
                             IF o \in EndSessionRows(activeSession[w])
                             THEN [status |-> "pending", claimed_by |-> Null]
                             ELSE orders[o]]
                     ELSE orders
    /\ pc' = [pc EXCEPT ![w] = "end_delete"]
    /\ loc' = [loc EXCEPT ![w] = SessionArgs(activeSession[w])]
    /\ ret' = [ret EXCEPT ![w] = "none"]
    /\ UNCHANGED <<order_items, active_sessions, users, uniqueKey, auth, kitchen, sessionSeq,
                   managed, queries>>

\* delete from active_sessions where id = s
Delete(rows) ==
    [t \in DOMAIN active_sessions \ rows |-> active_sessions[t]]

\* an error is thrown and logged by endKitchenSession, which then keeps the
\* session in the context
endSessionDelete(w) ==
    /\ pc[w] = "end_delete"
    /\ \E out \in Outcomes :
        /\ faults' = Count(out)
        /\ IF out = "error"
           THEN UNCHANGED <<active_sessions, activeSession>>
           ELSE /\ active_sessions' = Delete({loc[w].s})
                /\ activeSession' = [activeSession EXCEPT ![w] = Null]
    /\ Return(w, "void")
    /\ UNCHANGED <<order_items, orders, users, uniqueKey, timers, sessionSeq,
                   removing, kitchen, calls, managed, queries>>

\* ---- StaffManagement (the manager's dashboard) -----------------------------
\* terminateSession(sessionId): update active_sessions set status = 'inactive'
\* where id = s
Terminate(s) ==
    [t \in DOMAIN active_sessions |->
        IF t = s THEN [active_sessions[t] EXCEPT !.status = "inactive"]
        ELSE active_sessions[t]]

terminateSession(s) ==
    /\ calls < MaxCalls
    /\ calls' = calls + 1
    /\ \E out \in Outcomes :
        /\ faults' = Count(out)
        /\ active_sessions' = IF out = "ok" THEN Terminate(s) ELSE active_sessions
    /\ UNCHANGED <<order_items, orders, users, uniqueKey, pc, loc, ret, auth, kitchen,
                   sessionSeq, managed, queries>>

\* removeStaff(userId): delete from active_sessions where user_id = u, the
\* result is not looked at; then the user row loses its restaurant
removeStaff(u) ==
    /\ removing = Null
    /\ calls < MaxCalls
    /\ calls' = calls + 1
    /\ \E out \in Outcomes :
        /\ faults' = Count(out)
        /\ active_sessions' = IF out = "ok" THEN Delete(SessionsOf(u))
                              ELSE active_sessions
    /\ removing' = u
    /\ UNCHANGED <<order_items, orders, users, uniqueKey, pc, loc, ret,
                   activeSession, timers, sessionSeq, kitchen, managed, queries>>

\* update users set restaurant_id = null, role = 'customer' where id = u
removeStaffUser ==
    /\ removing # Null
    /\ \E out \in Outcomes :
        /\ faults' = Count(out)
        /\ users' = IF out = "ok" THEN [users EXCEPT ![removing] = Null] ELSE users
    /\ removing' = Null
    /\ UNCHANGED <<order_items, orders, active_sessions, uniqueKey, pc, loc, ret,
                   activeSession, timers, sessionSeq, kitchen, calls, managed, queries>>

\* ---- kitchen workers with sessions, and the manager -------------------------
NextSession ==
    \/ \E w \in Workers, o \in OrderIds, s \in Stations : claimOrder(w, o, s)
    \/ ClaimSteps
    \/ \E w \in Workers : authCreateKitchenSession(w)
    \/ \E s \in SessionIds : updateSessionHeartbeat(s)
    \/ \E w \in Workers : endKitchenSession(w)
    \/ \E w \in Workers : endSessionDelete(w)
    \/ \E s \in DOMAIN active_sessions : terminateSession(s)
    \/ \E u \in Workers : removeStaff(u)
    \/ removeStaffUser

SpecSession == Init /\ [][NextSession]_vars

\* ---- KitchenInterface ----------------------------------------------------------
\* a change notification of the orders or order_items subscription calls
\* loadKitchenOrders; the store answers the select, the answer travels
loadKitchenOrders(w) ==
    /\ response[w] = NoResponse
    /\ reloads < MaxReloads
    /\ reloads' = reloads + 1
    /\ \E out \in Outcomes :
        /\ faults' = Count(out)
        /\ response' = IF out = "ok" THEN [response EXCEPT ![w] = Snapshot]
                       ELSE response
    /\ UNCHANGED <<store, uniqueKey, pc, loc, ret, auth, sessionSeq,
                   view, claimedOrders, calls, managed, queries>>

\* the answer arrives: setOrders(data), setClaimedOrders(userClaimedOrders)
loadKitchenOrdersDone(w) ==
    /\ response[w] # NoResponse
    /\ view' = [view EXCEPT ![w] = response[w]]
    /\ claimedOrders' = [claimedOrders EXCEPT ![w] = userClaimedOrders(response[w], w)]
    /\ response' = [response EXCEPT ![w] = NoResponse]
    /\ UNCHANGED <<store, uniqueKey, pc, loc, ret, auth, sessionSeq,
                   reloads, faults, calls, managed, queries>>

\* the buttons the interface renders from its orders and claimedOrders state
CanClaim(w, o) == view[w].orders[o] = "pending" /\ o \notin claimedOrders[w]
CanRelease(w, o) == view[w].orders[o] = "pending" /\ o \in claimedOrders[w]
CanSetStatus(w, o, status) ==
    /\ o \in claimedOrders[w]
    /\ \/ status = "preparing" /\ view[w].orders[o] = "pending"
       \/ status = "ready" /\ view[w].orders[o] = "preparing"
CanComplete(w, i) ==
    /\ view[w].orders[OrderOf(i)] = "preparing"
    /\ view[w].items[i].claimed_by_user_id = w
    /\ view[w].items[i].status # "completed"

\* handleClaimOrder(orderId): claimOrder(orderId, user.id, station)
handleClaimOrder(w, o, station) ==
    /\ CanClaim(w, o)
    /\ claimOrderCall(w, o, station, "claim")
    /\ UNCHANGED kitchen

\* handleReleaseOrder(orderId): releaseOrder(orderId, user.id)
handleReleaseOrder(w, o) ==
    /\ CanRelease(w, o)
    /\ releaseOrderCall(w, o, "release")
    /\ UNCHANGED kitchen

\* updateOrderStatus(orderId, status): update orders set status where id = o;
\* an error is thrown and logged, the reload is skipped
updateOrderStatus(w, o, status) ==
    /\ CanSetStatus(w, o, status)
    /\ pc[w] = "idle"
    /\ calls < MaxCalls
    /\ calls' = calls + 1
    /\ \E out \in Outcomes :
        /\ faults' = Count(out)
        /\ IF out = "error"
           THEN /\ UNCHANGED <<orders, pc, loc>>
                /\ ret' = [ret EXCEPT ![w] = "void"]
           ELSE /\ orders' = [orders EXCEPT ![o].status = status]
                /\ pc' = [pc EXCEPT ![w] = "handler_load"]
                /\ loc' = [loc EXCEPT ![w] = UiArgs(o, "", FALSE, "status")]
                /\ ret' = [ret EXCEPT ![w] = "none"]
    /\ UNCHANGED <<order_items, active_sessions, users, uniqueKey, auth, sessionSeq,
                   kitchen, managed, queries>>

\* markItemComplete(itemId): update order_items set status = 'completed',
\* completed_at = now where id = i
markItemComplete(w, i) ==
    /\ CanComplete(w, i)
    /\ pc[w] = "idle"
    /\ calls < MaxCalls
    /\ calls' = calls + 1
    /\ \E out \in Outcomes :
        /\ faults' = Count(out)
        /\ IF out = "error"
           THEN /\ UNCHANGED <<order_items, pc, loc>>
                /\ ret' = [ret EXCEPT ![w] = "void"]
           ELSE /\ order_items' = [order_items EXCEPT ![i].status = "completed",
                                                      ![i].completed_at = TRUE]
                /\ pc' = [pc EXCEPT ![w] = "handler_load"]
                /\ loc' = [loc EXCEPT ![w] = UiArgs(OrderOf(i), "", FALSE, "complete")]
                /\ ret' = [ret EXCEPT ![w] = "none"]
    /\ UNCHANGED <<orders, active_sessions, users, uniqueKey, auth, sessionSeq,
                   kitchen, managed, queries>>

\* the end of a handler: after a claim or release that returned true
\* setClaimedOrders adds or deletes the order; then await loadKitchenOrders(),
\* whose error is logged
handlerClaimedOrders(w) ==
    CASE loc[w].ui = "claim" -> claimedOrders[w] \cup {loc[w].o}
      [] loc[w].ui = "release" -> claimedOrders[w] \ {loc[w].o}
      [] OTHER -> claimedOrders[w]

handlerLoad(w) ==
    /\ pc[w] = "handler_load"
    /\ \E out \in Outcomes :
        /\ faults' = Count(out)
        /\ IF out = "error"
           THEN /\ claimedOrders' = [claimedOrders EXCEPT ![w] = handlerClaimedOrders(w)]
                /\ UNCHANGED view
           ELSE /\ view' = [view EXCEPT ![w] = Snapshot]
                /\ claimedOrders' = [claimedOrders EXCEPT
                                        ![w] = userClaimedOrders(Snapshot, w)]
    /\ pc' = [pc EXCEPT ![w] = "idle"]
    /\ loc' = [loc EXCEPT ![w] = NoLoc]
    /\ ret' = [ret EXCEPT ![w] = "void"]
    /\ UNCHANGED <<store, uniqueKey, auth, sessionSeq, response, reloads, calls,
                   managed, queries>>

\* ---- kitchen workers at their kitchen interfaces --------------------------------
NextKitchen ==
    \/ \E w \in Workers, o \in OrderIds, s \in Stations : handleClaimOrder(w, o, s)
    \/ ClaimSteps
    \/ \E w \in Workers, o \in OrderIds : handleReleaseOrder(w, o)
    \/ ReleaseSteps
    \/ \E w \in Workers, o \in OrderIds, st \in {"preparing", "ready"} :
          updateOrderStatus(w, o, st)
    \/ \E w \in Workers, i \in ItemIds : markItemComplete(w, i)
    \/ \E w \in Workers : handlerLoad(w)
    \/ \E w \in Workers : loadKitchenOrders(w)
    \/ \E w \in Workers : loadKitchenOrdersDone(w)

\* a shift in progress: the first order has been served (OrderManagement set
\* its status) and is no longer listed, the other order waits
ServedOrder == CHOOSE o \in OrderIds : \A p \in OrderIds : o <= p
InitKitchen ==
    /\ order_items = [i \in ItemIds |->
          [order_id |-> OrderOf(i), claimed_by_user_id |-> Null,
           status |-> "pending", claimed_at |-> FALSE, completed_at |-> FALSE]]
    /\ orders = [o \in OrderIds |->
          [status |-> IF o = ServedOrder THEN "served" ELSE "pending",
           claimed_by |-> Null]]
    /\ active_sessions = [s \in {} |-> [user_id |-> Null, status |-> "active"]]
    /\ users = [w \in Workers |-> Restaurant]
    /\ uniqueKey \in BOOLEAN
    /\ placed = Placed
    /\ InitClients

SpecKitchen == InitKitchen /\ [][NextKitchen]_vars

\* ---- OrderManagement (the staff dashboard) -------------------------------------
\* the action buttons rendered from the dashboard's orders state
StaffButtons(o) ==
    CASE managed[o] = "pending" -> {"preparing", "cancelled"}
      [] managed[o] = "preparing" -> {"ready"}
      [] managed[o] = "ready" -> {"served"}
      [] OTHER -> {}

\* updateOrderStatus(orderId, status): update orders set status where id = o;
\* then the local copy of the order gets the status; an error is logged
orderManagementUpdateOrderStatus(o, status) ==
    /\ status \in StaffButtons(o)
    /\ calls < MaxCalls
    /\ calls' = calls + 1
    /\ \E out \in Outcomes :
        /\ faults' = Count(out)
        /\ IF out = "error"
           THEN UNCHANGED <<orders, managed>>
           ELSE /\ orders' = [orders EXCEPT ![o].status = status]
                /\ managed' = [managed EXCEPT ![o] = status]
    /\ UNCHANGED <<order_items, active_sessions, users, uniqueKey, pc, loc, ret, auth,
                   sessionSeq, kitchen, queries>>

\* a change notification of the orders subscription: loadOrders(), setOrders(data);
\* notifications are sent for changes, so the dashboard's copy is out of date
loadOrders ==
    /\ managed # [o \in OrderIds |-> orders[o].status]
    /\ reloads < MaxReloads
    /\ reloads' = reloads + 1
    /\ \E out \in Outcomes :
        /\ faults' = Count(out)
        /\ managed' = IF out = "ok" THEN [o \in OrderIds |-> orders[o].status]
                      ELSE managed
    /\ UNCHANGED <<store, uniqueKey, pc, loc, ret, auth, sessionSeq,
                   view, claimedOrders, response, calls, queries>>

\* ---- dbHelpers.claimOrder / releaseOrder: the SQL functions ---------------------
\* rpc('claim_order', order, session) with the session of the auth context.  The
\* function body is two statements, each reading the rows committed by then:
\* IF EXISTS (select ... where id = o and (claimed_by is null or claimed_by = s)
\* and status = 'pending').  An error of the rpc is thrown to the caller.
\* a test that does not look at the status
ClaimableAnyStatus(o, s) == orders[o].claimed_by \in {Null, s}
\* EXISTS (select 1 from orders where id = o and (claimed_by is null or
\* claimed_by = s) and status = 'pending')
Claimable(o, s) ==
    /\ orders[o].claimed_by \in {Null, s}
    /\ orders[o].status = "pending"

dbHelpersClaimOrder(w, o) ==
    /\ pc[w] = "idle"
    /\ activeSession[w] # Null
    /\ calls < MaxCalls
    /\ calls' = calls + 1
    /\ \E out \in Outcomes :
        /\ faults' = Count(out)
        /\ IF out = "error"
           THEN Return(w, "throw")
           ELSE IF Claimable(o, activeSession[w])
                THEN /\ pc' = [pc EXCEPT ![w] = "claim_order_rpc"]
                     /\ loc' = [loc EXCEPT ![w] =
                                   [Args(o, "", FALSE) EXCEPT !.s = activeSession[w]]]
                     /\ ret' = [ret EXCEPT ![w] = "none"]
                ELSE Return(w, "false")
    /\ UNCHANGED <<store, uniqueKey, auth, kitchen, sessionSeq, managed, queries>>

\* update orders set claimed_by = s, claimed_at = now(), status = 'preparing'
\* where id = o; return true
claim_order(w) ==
    /\ pc[w] = "claim_order_rpc"
    /\ \E out \in Outcomes :
        /\ faults' = Count(out)
        /\ IF out = "error"
           THEN /\ Return(w, "throw")
                /\ UNCHANGED orders
           ELSE /\ orders' = [orders EXCEPT ![loc[w].o] =
                                 [status |-> "preparing", claimed_by |-> loc[w].s]]
                /\ Return(w, "true")
    /\ UNCHANGED <<order_items, active_sessions, users, uniqueKey, auth, kitchen,
                   sessionSeq, calls, managed, queries>>

\* rpc('release_order', order, session): IF EXISTS (select ... where id = o and
\* claimed_by = s)
dbHelpersReleaseOrder(w, o) ==
    /\ pc[w] = "idle"
    /\ activeSession[w] # Null
    /\ calls < MaxCalls
    /\ calls' = calls + 1
    /\ \E out \in Outcomes :
        /\ faults' = Count(out)
        /\ IF out = "error"
           THEN Return(w, "throw")
           ELSE IF orders[o].claimed_by = activeSession[w]
                THEN /\ pc' = [pc EXCEPT ![w] = "release_order_rpc"]
                     /\ loc' = [loc EXCEPT ![w] =
                                   [Args(o, "", FALSE) EXCEPT !.s = activeSession[w]]]
                     /\ ret' = [ret EXCEPT ![w] = "none"]
                ELSE Return(w, "false")
    /\ UNCHANGED <<store, uniqueKey, auth, kitchen, sessionSeq, managed, queries>>

\* update orders set claimed_by = null, claimed_at = null, status = 'pending'
\* where id = o; return true
release_order(w) ==
    /\ pc[w] = "release_order_rpc"
    /\ \E out \in Outcomes :
        /\ faults' = Count(out)
        /\ IF out = "error"
           THEN /\ Return(w, "throw")
                /\ UNCHANGED orders
           ELSE /\ orders' = [orders EXCEPT ![loc[w].o] =
                                 [status |-> "pending", claimed_by |-> Null]]
                /\ Return(w, "true")
    /\ UNCHANGED <<order_items, active_sessions, users, uniqueKey, auth, kitchen,
                   sessionSeq, calls, managed, queries>>

\* ---- one kitchen worker, with a session, beside the staff dashboard -----------
Cook == CHOOSE w \in Workers : \A v \in Workers : w <= v

NextStaff ==
    \/ \E o \in OrderIds, s \in Stations : claimOrder(Cook, o, s)
    \/ claimOrderItems(Cook)
    \/ claimOrderStatus(Cook)
    \/ createKitchenSession(Cook)
    \/ createKitchenSessionUpsert(Cook)
    \/ \E o \in OrderIds : releaseOrder(Cook, o)
    \/ releaseOrderCheck(Cook)
    \/ releaseOrderStatus(Cook)
    \/ \E i \in ItemIds : markItemCompleted(Cook, i)
    \/ \E o \in OrderIds : checkOrderCompletion(Cook, o)
    \/ checkOrderCompletionStatus(Cook)
    \/ authCreateKitchenSession(Cook)
    \/ \E o \in OrderIds : dbHelpersClaimOrder(Cook, o)
    \/ claim_order(Cook)
    \/ \E o \in OrderIds : dbHelpersReleaseOrder(Cook, o)
    \/ release_order(Cook)
    \/ endKitchenSession(Cook)
    \/ endSessionDelete(Cook)
    \/ \E o \in OrderIds, st \in {"preparing", "ready", "served", "cancelled"} :
          orderManagementUpdateOrderStatus(o, st)
    \/ loadOrders

SpecStaff == Init /\ [][NextStaff]_vars

\* ---- AuthContext: signOut() -------------------------------------------------------
\* if (activeSession) dbHelpers.endSession(activeSession.id): first the orders
\* update, whose result is not looked at; without a session of the context the
\* call goes on to supabase.auth.signOut()
signOut(w) ==
    /\ pc[w] = "idle"
    /\ calls < MaxCalls
    /\ calls' = calls + 1
    /\ ret' = [ret EXCEPT ![w] = "none"]
    /\ IF activeSession[w] = Null
       THEN /\ pc' = [pc EXCEPT ![w] = "auth_sign_out"]
            /\ loc' = [loc EXCEPT ![w] = NoLoc]
            /\ UNCHANGED <<orders, faults>>
       ELSE /\ \E out \in Outcomes :
                /\ faults' = Count(out)
                /\ orders' = IF out = "ok"
                             THEN [o \in OrderIds |->
                                     IF o \in EndSessionRows(activeSession[w])
                                     THEN [status |-> "pending", claimed_by |-> Null]
                                     ELSE orders[o]]
                             ELSE orders
            /\ pc' = [pc EXCEPT ![w] = "sign_out_delete"]
            /\ loc' = [loc EXCEPT ![w] = SessionArgs(activeSession[w])]
    /\ UNCHANGED <<order_items, active_sessions, users, uniqueKey, auth, kitchen, sessionSeq,
                   managed, queries>>

\* delete from active_sessions where id = s; its error is thrown, signOut
\* catches and logs it and ends there; otherwise setActiveSession(undefined)
signOutDelete(w) ==
    /\ pc[w] = "sign_out_delete"
    /\ \E out \in Outcomes :
        /\ faults' = Count(out)
        /\ IF out = "error"
           THEN /\ UNCHANGED <<active_sessions, activeSession>>
                /\ Return(w, "void")
           ELSE /\ active_sessions' = Delete({loc[w].s})
                /\ activeSession' = [activeSession EXCEPT ![w] = Null]
                /\ Goto(w, "auth_sign_out")
    /\ UNCHANGED <<order_items, orders, users, uniqueKey, timers, sessionSeq,
                   removing, kitchen, calls, managed, queries>>

\* supabase.auth.signOut(): an error is logged; the auth state handler finds
\* no session left in the context
authSignOut(w) ==
    /\ pc[w] = "auth_sign_out"
    /\ \E out \in Outcomes : faults' = Count(out)
    /\ Return(w, "signed_out")
    /\ UNCHANGED <<store, uniqueKey, auth, kitchen, sessionSeq, calls, managed, queries>>

\* one kitchen worker who claims, opens a session and signs out
NextSignOut ==
    \/ \E o \in OrderIds, s \in Stations : claimOrder(Cook, o, s)
    \/ claimOrderItems(Cook)
    \/ claimOrderStatus(Cook)
    \/ createKitchenSession(Cook)
    \/ createKitchenSessionUpsert(Cook)
    \/ authCreateKitchenSession(Cook)
    \/ signOut(Cook)
    \/ signOutDelete(Cook)
    \/ authSignOut(Cook)

SpecSignOut == Init /\ [][NextSignOut]_vars

\* ---- kitchen workers with sessions calling the SQL functions -------------------
NextRpc ==
    \/ \E w \in Workers : authCreateKitchenSession(w)
    \/ \E w \in Workers, o \in OrderIds : dbHelpersClaimOrder(w, o)
    \/ \E w \in Workers : claim_order(w)
    \/ \E w \in Workers, o \in OrderIds : dbHelpersReleaseOrder(w, o)
    \/ \E w \in Workers : release_order(w)

SpecRpc == Init /\ [][NextRpc]_vars

\* ---- one kitchen worker, the session and its heartbeat interval ----------------
NextHeartbeat ==
    \/ \E o \in OrderIds, s \in Stations : claimOrder(Cook, o, s)
    \/ claimOrderItems(Cook)
    \/ claimOrderStatus(Cook)
    \/ authCreateKitchenSession(Cook)
    \/ \E s \in SessionIds : updateSessionHeartbeat(s)
    \/ endKitchenSession(Cook)
    \/ endSessionDelete(Cook)

SpecHeartbeat == Init /\ [][NextHeartbeat]_vars

\* ---- getPendingOrders(restaurantId) ----------------------------------------------
\* .eq('restaurant_id', r).in('status', ['pending', 'preparing'])
PendingRows(r) ==
    {o \in OrderIds : /\ placed[o].restaurant_id = r
                      /\ orders[o].status \in {"pending", "preparing"}}
\* the lists that hold each of the rows once
Lists(rows) ==
    {q \in [1 .. Cardinality(rows) -> rows] :
        \A i, j \in 1 .. Cardinality(rows) : i # j => q[i] # q[j]}
\* newest first
OrderDescending(q) ==
    \A i, j \in DOMAIN q : i < j => placed[q[i]].created_at >= placed[q[j]].created_at
\* .order('created_at', { ascending: true }); rows of equal created_at come in
\* any order
OrderAscending(q) ==
    \A i, j \in DOMAIN q : i < j => placed[q[i]].created_at <= placed[q[j]].created_at

\* one query; an error returned by it, or thrown, is logged and [] is returned
getPendingOrders(r) ==
    /\ \E out \in Outcomes :
        /\ faults' = Count(out)
        /\ IF out = "error"
           THEN pendingOrders' = [restaurant |-> r, data |-> <<>>]
           ELSE \E q \in Lists(PendingRows(r)) :
                   /\ OrderAscending(q)
                   /\ pendingOrders' = [restaurant |-> r, data |-> q]
    /\ UNCHANGED <<store, uniqueKey, pc, loc, ret, auth, sessionSeq, kitchen, managed,
                   placed, calls>>

\* orders of either restaurant, created in any order
InitPending ==
    /\ order_items = [i \in ItemIds |->
          [order_id |-> OrderOf(i), claimed_by_user_id |-> Null,
           status |-> "pending", claimed_at |-> FALSE, completed_at |-> FALSE]]
    /\ orders = [o \in OrderIds |-> [status |-> "pending", claimed_by |-> Null]]
    /\ active_sessions = [s \in {} |-> [user_id |-> Null, status |-> "active"]]
    /\ users = [w \in Workers |-> Restaurant]
    /\ uniqueKey \in BOOLEAN
    /\ placed \in [OrderIds -> [restaurant_id : Restaurants, created_at : Times]]
    /\ InitClients

NextPending ==
    \/ \E r \in Restaurants : getPendingOrders(r)
    \/ \E o \in OrderIds, st \in {"preparing", "ready", "served", "cancelled"} :
          orderManagementUpdateOrderStatus(o, st)

SpecPending == InitPending /\ [][NextPending]_vars

\* ---- CustomerCart: handleSubmitOrder -> dbHelpers.createOrder ------------------
\* a row that has not been inserted
NoOrder == [status |-> "none", claimed_by |-> Null]
NoItem == [order_id |-> Null, claimed_by_user_id |-> Null, status |-> "none",
           claimed_at |-> FALSE, completed_at |-> FALSE]

\* insert into orders (..., status: 'pending'); an error is thrown to
\* handleSubmitOrder, which shows a message
createOrder(o) ==
    /\ pc[Customer] = "idle"
    /\ orders[o] = NoOrder
    /\ calls < MaxCalls
    /\ calls' = calls + 1
    /\ \E out \in Outcomes :
        /\ faults' = Count(out)
        /\ IF out = "error"
           THEN /\ Return(Customer, "throw")
                /\ UNCHANGED orders
           ELSE /\ orders' = [orders EXCEPT ![o] = [status |-> "pending",
                                                    claimed_by |-> Null]]
                /\ pc' = [pc EXCEPT ![Customer] = "create_items"]
                /\ loc' = [loc EXCEPT ![Customer] = Args(o, "", FALSE)]
                /\ ret' = [ret EXCEPT ![Customer] = "none"]
    /\ UNCHANGED <<order_items, active_sessions, users, uniqueKey, auth, kitchen,
                   sessionSeq, managed, queries>>

\* insert into order_items the items of the cart, with order_id = order.id;
\* an error is thrown, the order row stays
createOrderItems ==
    /\ pc[Customer] = "create_items"
    /\ \E out \in Outcomes :
        /\ faults' = Count(out)
        /\ IF out = "error"
           THEN /\ Return(Customer, "throw")
                /\ UNCHANGED order_items
           ELSE /\ order_items' = [i \in ItemIds |->
                      IF OrderOf(i) = loc[Customer].o
                      THEN [order_id |-> OrderOf(i), claimed_by_user_id |-> Null,
                            status |-> "pending", claimed_at |-> FALSE,
                            completed_at |-> FALSE]
                      ELSE order_items[i]]
                /\ Return(Customer, "order")
    /\ UNCHANGED <<orders, active_sessions, users, uniqueKey, auth, kitchen,
                   sessionSeq, calls, managed, queries>>

\* ---- customers place the orders while the kitchen claims ------------------------
InitCheckout ==
    /\ order_items = [i \in ItemIds |-> NoItem]
    /\ orders = [o \in OrderIds |-> NoOrder]
    /\ active_sessions = [s \in {} |-> [user_id |-> Null, status |-> "active"]]
    /\ users = [w \in Workers |-> Restaurant]
    /\ uniqueKey \in BOOLEAN
    /\ placed = Placed
    /\ InitClients

NextCheckout ==
    \/ \E o \in OrderIds : createOrder(o)
    \/ createOrderItems
    \/ \E w \in Workers, o \in OrderIds \cup {NoSuchOrder}, s \in Stations :
          claimOrder(w, o, s)
    \/ ClaimSteps

SpecCheckout == InitCheckout /\ [][NextCheckout]_vars

\* ---- orders being placed while a worker runs checkOrderCompletion on them ------
NextCompletion ==
    \/ \E o \in OrderIds : createOrder(o)
    \/ createOrderItems
    \/ \E o \in OrderIds : orders[o] # NoOrder /\ claimOrder(Cook, o, "")
    \/ claimOrderItems(Cook)
    \/ claimOrderStatus(Cook)
    \/ \E i \in ItemIds : markItemCompleted(Cook, i)
    \/ \E o \in OrderIds : orders[o] # NoOrder /\ checkOrderCompletion(Cook, o)
    \/ checkOrderCompletionStatus(Cook)

SpecCompletion == InitCheckout /\ [][NextCompletion]_vars

\* ---- one session at a time calling the SQL functions, nobody else ---------------
\* the orders in any status, or not placed; claimed by nobody
InitRpc ==
    /\ orders \in [OrderIds ->
          [status : {"none", "pending", "preparing", "ready", "served", "cancelled"},
           claimed_by : {Null}]]
    /\ order_items = [i \in ItemIds |->
          IF orders[OrderOf(i)] = NoOrder THEN NoItem
          ELSE [order_id |-> OrderOf(i), claimed_by_user_id |-> Null,
                status |-> "pending", claimed_at |-> FALSE, completed_at |-> FALSE]]
    /\ active_sessions = [s \in {} |-> [user_id |-> Null, status |-> "active"]]
    /\ users = [w \in Workers |-> Restaurant]
    /\ uniqueKey \in BOOLEAN
    /\ placed = Placed
    /\ InitClients

NextRpcAlone ==
    \/ authCreateKitchenSession(Cook)
    \/ \E o \in OrderIds : dbHelpersClaimOrder(Cook, o)
    \/ claim_order(Cook)
    \/ \E o \in OrderIds : dbHelpersReleaseOrder(Cook, o)
    \/ release_order(Cook)

SpecRpcAlone == InitRpc /\ [][NextRpcAlone]_vars

\* ---- a worker claiming again the orders whose items the worker owns ------------
\* the items are the worker's, claimed or completed; an order whose status
\* update failed is still pending, and the staff may have set one to ready
InitOwned ==
    /\ order_items \in [ItemIds ->
          {[order_id |-> o, claimed_by_user_id |-> Cook, status |-> st,
            claimed_at |-> TRUE, completed_at |-> st = "completed"] :
              o \in OrderIds, st \in {"claimed", "completed"}}]
    /\ \A i \in ItemIds : order_items[i].order_id = OrderOf(i)
    /\ orders \in [OrderIds ->
          [status : {"pending", "preparing", "ready"}, claimed_by : {Null}]]
    /\ active_sessions = [s \in {} |-> [user_id |-> Null, status |-> "active"]]
    /\ users = [w \in Workers |-> Restaurant]
    /\ uniqueKey \in BOOLEAN
    /\ placed = Placed
    /\ InitClients

NextReclaim ==
    \/ \E o \in OrderIds, s \in Stations : claimOrder(Cook, o, s)
    \/ claimOrderItems(Cook)
    \/ claimOrderStatus(Cook)
    \/ createKitchenSession(Cook)
    \/ createKitchenSessionUpsert(Cook)

SpecReclaim == InitOwned /\ [][NextReclaim]_vars

\* ---- workers claiming and releasing, without stations --------------------------
NextRelease ==
    \/ \E w \in Workers, o \in OrderIds : claimOrder(w, o, "")
    \/ \E w \in Workers : claimOrderItems(w)
    \/ \E w \in Workers : claimOrderStatus(w)
    \/ \E w \in Workers, o \in OrderIds : releaseOrder(w, o)
    \/ ReleaseSteps

SpecRelease == Init /\ [][NextRelease]_vars

\* ---- K workers claim one unclaimed order, each once ------------------------
RaceOrder == CHOOSE o \in OrderIds : Cardinality({i \in ItemIds : OrderOf(i) = o}) > 1

NextRace ==
    \/ \E w \in Workers, s \in Stations :
          /\ ret[w] = "none"
          /\ claimOrder(w, RaceOrder, s)
    \/ ClaimSteps

SpecRace == Init /\ [][NextRace]_vars

\* ---- properties -------------------------------------------------------------
Quiescent == \A w \in Workers : pc[w] = "idle"
Returned(w) == pc[w] = "idle" /\ ret[w] # "none"
\* a step that is a markItemCompleted call of worker w returning true
MarkReturnsTrue(w) ==
    /\ \E i \in ItemIds \cup {NoSuchId} : markItemCompleted(w, i)
    /\ ret'[w] = "true"

\* C1: when every worker has run claimOrder on the unclaimed order and no store
\* call failed, exactly one call returned true, the others returned false, and
\* a call that returned false left no item and no session of its worker behind.
C1_ExactlyOneClaimed ==
    ((\A w \in Workers : Returned(w)) /\ faults = 0) =>
        /\ Cardinality({w \in Workers : ret[w] = "true"}) = 1
        /\ \A w \in Workers : ret[w] = "false" =>
              OwnedBy(RaceOrder, w) = {} /\ SessionsOf(w) = {}

\* C2: all items of one order that have a claim owner have the same owner.
C2_SingleOwnerPerOrder ==
    \A o \in OrderIds : \A i, j \in ClaimedItems(o) :
        order_items[i].claimed_by_user_id = order_items[j].claimed_by_user_id

\* C2 witness: a worker is past the conflict test of claimOrder on an order
\* whose items another worker has claimed in the meantime.
C2_Witness ==
    \E w \in Workers :
        /\ pc[w] = "claim_items"
        /\ Cardinality(ItemsOf(loc[w].o)) > 1
        /\ \A i \in ItemsOf(loc[w].o) :
              order_items[i].claimed_by_user_id \notin {Null, w}

\* C3: with no call in flight, an order is ready iff all its items are completed.
C3_ReadyIffAllCompleted ==
    Quiescent => \A o \in OrderIds :
        (orders[o].status = "ready") <=> AllCompleted(o)

\* C5: a markItemCompleted call returns true only if its update matched a row,
\* that is an existing item whose claim owner is the caller.
C5_CompletedOnlyByOwner ==
    [][\A w \in Workers : MarkReturnsTrue(w) =>
          \E i \in ItemIds : /\ order_items[i].claimed_by_user_id = w
                             /\ order_items'[i].status = "completed"]_vars

\* C6: no step of a releaseOrder call whose worker owned no item of the order
\* changes a row of the store.
C6_ReleaseByNonOwnerIsNoOp ==
    [][\A w \in Workers :
          (/\ pc[w] \in {"release_check", "release_order"}
           /\ pc'[w] # pc[w]
           /\ ~loc[w].released) => store' = store]_vars

\* C9: an item whose status is completed keeps that status in every step.
C9_CompletedIsTerminal ==
    [][\A i \in ItemIds : order_items[i].status = "completed" =>
          order_items'[i].status = "completed"]_vars

\* C10: the markItemCompleted step that completes the last open item of a
\* preparing order leaves the order ready, and one that leaves an item open
\* does not.
C10_ReadyAfterLastCompletion ==
    [][\A w \in Workers : MarkReturnsTrue(w) =>
          \A o \in OrderIds :
             (orders[o].status = "preparing" /\ ~AllCompleted(o)) =>
                 (orders'[o].status = "ready") <=> AllCompleted(o)']_vars
\* the sessions a step closes: the row is deleted, or goes from active to inactive
Closed(s) ==
    /\ s \in DOMAIN active_sessions
    /\ active_sessions[s].status = "active"
    /\ s \in DOMAIN active_sessions' => active_sessions'[s].status = "inactive"

\* C7: a step that closes a session leaves no item owned by that session's
\* worker, and leaves the items owned by other workers as they were.
C7_CloseReleasesClaims ==
    [][\A s \in SessionIds : Closed(s) =>
          \A i \in ItemIds :
             /\ order_items'[i].claimed_by_user_id # active_sessions[s].user_id
             /\ order_items[i].claimed_by_user_id
                   \notin {Null, active_sessions[s].user_id}
                => order_items'[i] = order_items[i]]_vars

\* C8: the claim owner of an item is unset or a worker with an active session;
\* the worker's own claimOrder call is allowed to be still in flight.
C8_OwnerHasActiveSession ==
    \A i \in ItemIds :
        LET w == order_items[i].claimed_by_user_id
        IN  (w # Null /\ pc[w] = "idle") => ActiveSessionsOf(w) # {}

\* C4: an item's status becomes completed only in a step of the worker who is
\* its claim owner at that moment: a completion attempted by anyone else
\* changes nothing (here for markItemComplete of the kitchen interface)
C4_CompletedByOwnerOnly ==
    [][\A i \in ItemIds :
          (order_items[i].status # "completed" /\ order_items'[i].status = "completed") =>
              \E w \in Workers : /\ markItemComplete(w, i)
                                 /\ order_items[i].claimed_by_user_id = w]_vars

\* a step that ends a releaseOrder call of worker w with the result true
ReleaseReturnsTrue(w) ==
    /\ releaseOrderCheck(w) \/ releaseOrderStatus(w)
    /\ ret'[w] = "true"

C12_CloseRevertsOrders ==
    [][\A w \in Workers : (endSessionDelete(w) /\ Closed(loc[w].s)) =>
          \A o \in OrderIds :
             OwnedBy(o, w) # {} =>
                /\ \A i \in ItemsOf(o) : order_items'[i].claimed_by_user_id # w
                /\ ClaimedItems(o) = OwnedBy(o, w) => orders'[o].status = "pending"]_vars

\* C13: no step of the database library moves an order whose status is ready,
\* served or cancelled back to pending or preparing.
C13_NoRegressionFromReady ==
    [][\A o \in OrderIds :
          orders[o].status \in {"ready", "served", "cancelled"} =>
              orders'[o].status \notin {"pending", "preparing"}]_vars

\* C14: an order's status becomes served or cancelled only in a step that is
\* an updateOrderStatus of the staff dashboard with that status.
C14_ServedOnlyByStaff ==
    [][\A o \in OrderIds :
          (/\ orders'[o].status \in {"served", "cancelled"}
           /\ orders'[o].status # orders[o].status) =>
              orderManagementUpdateOrderStatus(o, orders'[o].status)]_vars

\* C14 witness: the staff served an order whose items a worker completed
C14_Witness ==
    \E o \in OrderIds : orders[o].status = "served" /\ AllCompleted(o)

\* C15: a claimOrder call on an order id with no order-item rows (no such
\* order, or an order without items) returns false in its first step and
\* changes no row of order_items, orders or active_sessions.
C15_ClaimNotFound ==
    [][\A w \in Workers, o \in OrderIds \cup {NoSuchOrder}, st \in Stations :
          (claimOrder(w, o, st) /\ ItemsOf(o) = {}) =>
              /\ pc'[w] = "idle" /\ ret'[w] = "false"
              /\ store' = store]_vars

\* C15 witness: with no failed store call and no claimed item anywhere, a
\* claimOrder call has returned false while an order row without items exists
C15_Witness ==
    /\ faults = 0
    /\ \A i \in ItemIds : order_items[i].claimed_by_user_id = Null
    /\ \E w \in Workers : pc[w] = "idle" /\ ret[w] = "false"
    /\ \E o \in OrderIds : orders[o] # NoOrder /\ ItemsOf(o) = {}

\* C19: in every state an order row that exists has its order-item rows; in
\* particular once the checkout has returned, with or without an error.
C19_OrderCreatedWithItems ==
    \A o \in OrderIds : orders[o] # NoOrder => ItemsOf(o) # {}

\* C16 as stated: the order-status step of a claimOrder call, which always
\* goes on to return true, leaves the order preparing if it was pending and
\* leaves every other status as it was.
C16_AdvanceIffPending ==
    [][claimOrderStatus(Cook) =>
          orders'[loc[Cook].o].status =
              IF orders[loc[Cook].o].status = "pending" THEN "preparing"
              ELSE orders[loc[Cook].o].status]_vars

\* C16 amended: the same, when the update statement itself does not fail; when
\* it fails the status stays as it was.  No other order row changes.
C16_AdvanceIffPendingUnlessFailed ==
    [][claimOrderStatus(Cook) =>
          /\ orders'[loc[Cook].o].status =
                IF orders[loc[Cook].o].status = "pending" /\ faults' = faults
                THEN "preparing"
                ELSE orders[loc[Cook].o].status
          /\ \A p \in OrderIds \ {loc[Cook].o} : orders'[p] = orders[p]]_vars

\* C16 witness: the worker has claimed all items of an order and is at the
\* guarded update while the staff has cancelled the order
C16_Witness ==
    /\ pc[Cook] = "claim_order"
    /\ orders[loc[Cook].o].status = "cancelled"
    /\ OwnedBy(loc[Cook].o, Cook) = ItemsOf(loc[Cook].o)

\* C17: no worker has more than one active session row (all workers belong to
\* the one restaurant).
C17_OneActiveSessionPerWorker ==
    \A w \in Workers : Cardinality(ActiveSessionsOf(w)) <= 1

\* C18: no state, and so no query of another client, shows a claimOrder call
\* that has claimed items of an order still pending, or a releaseOrder call
\* that has released the last claimed items of an order still preparing.
C18_NoPartialClaimVisible ==
    \A w \in Workers :
        /\ pc[w] = "claim_order" =>
              ~(OwnedBy(loc[w].o, w) # {} /\ orders[loc[w].o].status = "pending")
        /\ pc[w] \in {"release_check", "release_order"} =>
              ~(/\ loc[w].released
                /\ ClaimedItems(loc[w].o) = {}
                /\ orders[loc[w].o].status = "preparing")

\* C20: the step of endSession that deletes a session's row happens only when
\* the release before it took effect: no order is left claimed by the session
\* whose row is deleted.
C20_DeletedSessionLeavesNoClaim ==
    [][\A w \in Workers :
          (/\ endSessionDelete(w)
           /\ loc[w].s \in DOMAIN active_sessions
           /\ loc[w].s \notin DOMAIN active_sessions')
          => EndSessionRows(loc[w].s) = {}]_vars

\* C21: a heartbeat call that fails stops the interval of its session, which
\* is never started again, so no later heartbeat is sent for it; the failing
\* step leaves every call in flight, and the orders and items, as they were.
C21_FailedHeartbeatStopsInterval ==
    [][\A s \in SessionIds :
          /\ (updateSessionHeartbeat(s) /\ faults' # faults) =>
                /\ s \notin timers'
                /\ UNCHANGED <<pc, loc, ret, order_items, orders>>
          /\ (s <= sessionSeq /\ s \notin timers) =>
                /\ s \notin timers'
                /\ ~updateSessionHeartbeat(s)]_vars

\* a claimOrder call is in flight, past its items update, for a worker whose
\* session lost its heartbeat interval to a store error
C21_Witness ==
    \E w \in Workers :
        /\ pc[w] = "claim_order"
        /\ activeSession[w] # Null
        /\ activeSession[w] \notin timers
        /\ activeSession[w] \in DOMAIN active_sessions
        /\ faults > 0

\* C22: a getPendingOrders call returns each order of the restaurant with
\* status pending or preparing once and nothing else, no order before one
\* created earlier; when the query fails it returns the empty list.
C22_PendingOrdersOldestFirst ==
    [][\A r \in Restaurants : getPendingOrders(r) =>
          LET d == pendingOrders'.data
              wanted == {o \in OrderIds :
                           /\ placed[o].restaurant_id = r
                           /\ orders[o].status \in {"pending", "preparing"}}
          IN  IF faults' # faults
              THEN d = <<>>
              ELSE /\ {d[k] : k \in 1 .. Len(d)} = wanted
                   /\ Len(d) = Cardinality(wanted)
                   /\ \A k \in 1 .. Len(d) - 1 :
                         placed[d[k]].created_at <= placed[d[k + 1]].created_at]_vars

\* a call returned two orders, the one with the larger id created first
C22_Witness ==
    /\ Len(pendingOrders.data) = Cardinality(OrderIds)
    /\ Cardinality(OrderIds) > 1
    /\ pendingOrders.data[1] > pendingOrders.data[2]
    /\ placed[pendingOrders.data[1]].created_at < placed[pendingOrders.data[2]].created_at

\* C23: when the order update of claimOrder or of releaseOrder fails, the step
\* leaves the items as the items update made them, and the call returns true:
\* at once, or for a claim with a station after the session steps, which
\* change no item either.
C23_ItemMutationStands ==
    [][\A w \in Workers :
          /\ (claimOrderStatus(w) /\ faults' # faults) =>
                /\ UNCHANGED <<order_items, orders>>
                /\ ret'[w] = "true" \/ pc'[w] = "session_user"
          /\ (createKitchenSession(w) \/ createKitchenSessionUpsert(w)) =>
                /\ UNCHANGED <<order_items, orders>>
                /\ ret'[w] = "true" \/ pc'[w] = "session_upsert"
          /\ (releaseOrderStatus(w) /\ faults' # faults) =>
                /\ UNCHANGED <<order_items, orders>>
                /\ ret'[w] = "true"]_vars

\* the only call so far is a claimOrder whose order update failed: it has
\* returned true, the items are the worker's, the order is still pending
C23_Witness ==
    /\ calls = 1
    /\ faults = 1
    /\ pc[Cook] = "idle"
    /\ ret[Cook] = "true"
    /\ \E o \in OrderIds :
          /\ orders[o].status = "pending"
          /\ OwnedBy(o, Cook) = ItemsOf(o)
          /\ \A i \in ItemsOf(o) : order_items[i].status = "claimed"

\* C24: when no other call is in flight and an order is pending with a claimed
\* item, a checkOrderCompletion call on it that ends without a store error
\* leaves the order with a status other than pending.
C24_AggregatorHealsStatus ==
    [][\A w \in Workers, o \in OrderIds :
          (/\ checkOrderCompletion(w, o)
           /\ \A v \in Workers : pc[v] = "idle"
           /\ faults' = faults
           /\ pc'[w] = "idle"
           /\ orders[o].status = "pending"
           /\ \E i \in ItemsOf(o) : order_items[i].status = "claimed")
          => orders'[o].status # "pending"]_vars

\* C25: a claim, release or completion call never ends in a thrown error: a
\* step that ends one, of the database library or of dbHelpers, returns true
\* or false.
C25_ResultsNotThrown ==
    [][\A w \in Workers :
          (/\ pc'[w] = "idle"
           /\ ret'[w] # ret[w]
           /\ \/ \E o \in OrderIds, s \in Stations : claimOrder(w, o, s)
              \/ claimOrderItems(w) \/ claimOrderStatus(w)
              \/ createKitchenSession(w) \/ createKitchenSessionUpsert(w)
              \/ \E o \in OrderIds : releaseOrder(w, o)
              \/ releaseOrderCheck(w) \/ releaseOrderStatus(w)
              \/ \E i \in ItemIds : markItemCompleted(w, i)
              \/ \E o \in OrderIds : dbHelpersClaimOrder(w, o)
              \/ claim_order(w)
              \/ \E o \in OrderIds : dbHelpersReleaseOrder(w, o)
              \/ release_order(w))
          => ret'[w] \in {"true", "false"}]_vars

\* C26: a claim_order call that returns TRUE has taken an order that was
\* pending and claimed by no other session at the moment of its update, so of
\* the calls made concurrently on an unclaimed order at most one returns TRUE.
C26_RpcClaimAtomic ==
    [][\A w \in Workers :
          (claim_order(w) /\ ret'[w] = "true") =>
              /\ orders[loc[w].o].claimed_by \in {Null, loc[w].s}
              /\ orders[loc[w].o].status = "pending"]_vars

\* C27: once the calls have run to completion, none of them having met a store
\* error, an order with an item of status claimed is not pending.
C27_ClaimedOrderNotPending ==
    (Quiescent /\ faults = 0) =>
        \A o \in OrderIds :
            (\E i \in ItemsOf(o) : order_items[i].status = "claimed")
                => orders[o].status # "pending"

\* C28: the items update of releaseOrder(o, w) changes only items of order o
\* owned by w; the later steps of the call change no item.
C28_ReleaseFrame ==
    [][\A w \in Workers :
          /\ \A o \in OrderIds : releaseOrder(w, o) =>
                \A i \in ItemIds :
                   (OrderOf(i) # o \/ order_items[i].claimed_by_user_id # w)
                      => order_items'[i] = order_items[i]
          /\ (releaseOrderCheck(w) \/ releaseOrderStatus(w)) =>
                order_items' = order_items]_vars

\* a release of the caller's items is past its items update while another
\* worker owns the items of another order
C28_Witness ==
    \E w \in Workers :
        /\ pc[w] = "release_check"
        /\ loc[w].released
        /\ OwnedBy(loc[w].o, w) = {}
        /\ \E i \in ItemIds :
              /\ OrderOf(i) # loc[w].o
              /\ order_items[i].claimed_by_user_id \notin {Null, w}

\* C29: the order update of checkOrderCompletion changes nothing but the
\* status of its order, to ready, with every item completed; it leaves an
\* order that is ready, served or cancelled as it is.
C29_AggregatorOnlyMarksReady ==
    [][\A w \in Workers : checkOrderCompletionStatus(w) =>
          LET o == loc[w].o
          IN  /\ \A p \in OrderIds \ {o} : orders'[p] = orders[p]
              /\ orders[o].status \in {"ready", "served", "cancelled"}
                    => orders'[o] = orders[o]
              /\ orders'[o] # orders[o]
                    => orders'[o].status = "ready" /\ AllCompleted(o)]_vars

\* the edges of the order state machine
Edges ==
    {<<"pending", "preparing">>, <<"preparing", "ready">>, <<"ready", "served">>,
     <<"pending", "cancelled">>, <<"preparing", "pending">>}

\* C30: every step that changes an order's status takes it along an edge of
\* the order state machine; no step changes a served or cancelled order.
C30_StatusFollowsEdges ==
    [][\A o \in OrderIds :
          orders'[o].status # orders[o].status =>
              <<orders[o].status, orders'[o].status>> \in Edges]_vars

\* C31: a heartbeat call leaves the status and the owner of every session row,
\* the orders and the items as they were.
C31_HeartbeatFrame ==
    [][\A s \in SessionIds : updateSessionHeartbeat(s) =>
          UNCHANGED <<active_sessions, orders, order_items>>]_vars

\* C32: when a signOut call of a worker completes, no active session row of
\* the worker is left and the worker owns no item.
C32_SignOutDestroysSession ==
    [][\A w \in Workers :
          (authSignOut(w) /\ faults' = 0) =>
              /\ ActiveSessionsOf(w) = {}
              /\ \A i \in ItemIds : order_items[i].claimed_by_user_id # w]_vars

\* C33: when no call is in flight and a worker's view and claimedOrders equal
\* the store's content, the arrival of a re-query response leaves them equal
\* to it: with the mutations over and the re-queries returned, the view shows
\* the store.
C33_ViewConverges ==
    [][\A w \in Workers :
          (/\ loadKitchenOrdersDone(w)
           /\ Quiescent
           /\ view[w] = Snapshot
           /\ claimedOrders[w] = userClaimedOrders(Snapshot, w))
          => /\ view'[w] = Snapshot
             /\ claimedOrders'[w] = userClaimedOrders(Snapshot, w)]_vars

\* C34: an item has status pending exactly when its claim owner is unset.
C34_PendingIffUnclaimed ==
    \A i \in ItemIds :
        (order_items[i].status = "pending") <=> (order_items[i].claimed_by_user_id = Null)

\* C35: a step in which a claimOrder or releaseOrder call returns false changes
\* no row, and the call has changed none before: a releaseOrder that returns
\* false has released no item.
C35_FalseMeansNoEffect ==
    [][\A w \in Workers :
          /\ ((\/ \E o \in OrderIds, s \in Stations : claimOrder(w, o, s)
               \/ claimOrderItems(w)
               \/ \E o \in OrderIds : releaseOrder(w, o)
               \/ releaseOrderCheck(w))
              /\ ret'[w] = "false")
                => UNCHANGED <<order_items, orders>>
          /\ (releaseOrderCheck(w) /\ ret'[w] = "false") => ~loc[w].released]_vars

\* C36: no step of a claimOrder call by the worker who owns every item of the
\* order, met by no store error, changes an item or an order, and none
\* returns false.
C36_ReclaimChangesNothing ==
    [][(faults' = faults /\ pc'[Cook] # pc[Cook]) =>
          /\ UNCHANGED <<order_items, orders>>
          /\ ret'[Cook] # "false"]_vars

\* C36 as the code has it: no step of such a call changes an item or returns
\* false without a store error; the order update of the call takes a pending
\* order to preparing and leaves every other order as it is.
C36_ReclaimKeepsItems ==
    [][pc'[Cook] # pc[Cook] =>
          /\ order_items' = order_items
          /\ faults' = faults => ret'[Cook] # "false"
          /\ \A o \in OrderIds :
                orders'[o] # orders[o] =>
                    /\ claimOrderStatus(Cook)
                    /\ o = loc[Cook].o
                    /\ orders[o].status = "pending"
                    /\ orders'[o] = [orders[o] EXCEPT !.status = "preparing"]]_vars

\* the owner's second claim has reached its order update with the order ready
\* and an item completed
C36_Witness ==
    /\ pc[Cook] = "claim_order"
    /\ orders[loc[Cook].o].status = "ready"
    /\ OwnedBy(loc[Cook].o, Cook) = ItemsOf(loc[Cook].o)
    /\ \E i \in ItemsOf(loc[Cook].o) : order_items[i].status = "completed"

\* C37: a heartbeat is issued only for a session that is open, its row
\* present and active; a session that has ended is not made active again.
C37_NoHeartbeatAfterEnd ==
    [][/\ \A s \in SessionIds : updateSessionHeartbeat(s) =>
             /\ s \in DOMAIN active_sessions
             /\ active_sessions[s].status = "active"
       /\ \A s \in DOMAIN active_sessions :
             (active_sessions[s].status = "inactive" /\ s \in DOMAIN active_sessions')
                => active_sessions'[s].status = "inactive"]_vars

\* C38: the order update of checkOrderCompletion makes an order ready only if
\* the order has an item and every item of it is completed.
C38_ReadyNeedsItems ==
    [][\A w \in Workers :
          (/\ checkOrderCompletionStatus(w)
           /\ orders'[loc[w].o].status = "ready"
           /\ orders[loc[w].o].status # "ready")
          => /\ ItemsOf(loc[w].o) # {}
             /\ AllCompleted(loc[w].o)]_vars

====
